---------------------------- MODULE Spec2Model ----------------------------
(***************************************************************************)
(* A model of pybug/decomposition/base.py: the PCA class (construction,    *)
(* fit/_fit, transform, inverse_transform) and the helper                  *)
(* _eigenvalue_decomposition.                                              *)
(*                                                                         *)
(* Numbers.  The program computes with floats; the model computes with the *)
(* exact reals  (n/d) * sqrt(r),  n, d integers, r a squarefree positive   *)
(* integer.  That set is closed under every operation the program applies  *)
(* to the inputs of the model: data are rational, a unit eigenvector of a  *)
(* rational symmetric matrix with a rational eigenvalue is a rational      *)
(* vector times one square root, and  x ** -0.5  of a rational is again of *)
(* that shape.  A value with d = 0 is a non-finite float (nan, +-inf).     *)
(***************************************************************************)
EXTENDS Integers, Sequences, FiniteSets

\* ------------------------------------------------------------- bounds

\* Largest n_components a caller passes to the constructor.
MaxComponents == 3
\* Entries of the integer directions tried as eigenvectors lie in -Reach..Reach.
Reach == 2

\* The constructor's default for n_components (Python's None).
None == -1
\* The default relative tolerance of _eigenvalue_decomposition is 10 ** -EpsExp.
EpsExp == 10

\* ------------------------------------------------------------- numbers

Abs(i) == IF i < 0 THEN -i ELSE i

RECURSIVE Gcd(_, _)
Gcd(a, b) == IF b = 0 THEN a ELSE Gcd(b, a % b)

\* The largest k with k*k dividing m (m > 0): the square part of m.
RECURSIVE SquarePart(_, _)
SquarePart(m, k) ==
    IF k * k > m THEN 1
    ELSE IF m % (k * k) = 0 THEN k * SquarePart(m \div (k * k), k)
    ELSE SquarePart(m, k + 1)

NaN == [n |-> 0, d |-> 0, r |-> 1]
Inf(sign) == [n |-> sign, d |-> 0, r |-> 1]
IsFinite(x) == x.d # 0

\* (n/d) * sqrt(r) in normal form: d > 0, gcd(n, d) = 1, r squarefree, and
\* r = 1 when n = 0.  r > 0 is required.
Real(n, d, r) ==
    IF d = 0 THEN (IF n = 0 THEN NaN ELSE Inf(IF n > 0 THEN 1 ELSE -1))
    ELSE IF n = 0 THEN [n |-> 0, d |-> 1, r |-> 1]
    ELSE LET k  == SquarePart(r, 2)
             n1 == (IF d < 0 THEN -n ELSE n) * k
             d1 == Abs(d)
             g  == Gcd(Abs(n1), d1)
         IN  [n |-> n1 \div g, d |-> d1 \div g, r |-> r \div (k * k)]

Rat(n, d) == Real(n, d, 1)
Int2Real(i) == Real(i, 1, 1)
Zero == Int2Real(0)
One == Int2Real(1)

Sign(x) == IF x.n > 0 THEN 1 ELSE IF x.n < 0 THEN -1 ELSE 0

Neg(x) == [x EXCEPT !.n = -x.n]

Mul(x, y) ==
    IF ~IsFinite(x) \/ ~IsFinite(y) THEN NaN
    ELSE Real(x.n * y.n, x.d * y.d, x.r * y.r)

\* Float division: x / 0 is +-inf, 0 / 0 is nan (a warning, not an exception).
Div(x, y) ==
    IF ~IsFinite(x) \/ ~IsFinite(y) THEN NaN
    ELSE IF y.n = 0 THEN Real(Sign(x), 0, 1)
    ELSE Real(x.n * y.d * (IF y.n < 0 THEN -1 ELSE 1), x.d * Abs(y.n) * y.r, x.r * y.r)

\* A sum of two reals with different square roots is not of the shape
\* (n/d) * sqrt(r); no operation of the program on the model's inputs forms one
\* (Representable checks it), and the model marks it nan.
Add(x, y) ==
    IF ~IsFinite(x) \/ ~IsFinite(y) THEN NaN
    ELSE IF x.n = 0 THEN y
    ELSE IF y.n = 0 THEN x
    ELSE IF x.r # y.r THEN NaN
    ELSE Real(x.n * y.d + y.n * x.d, x.d * y.d, x.r)

Sub(x, y) == Add(x, Neg(y))

\* x < y, for finite x and y: by the sign and the square of the difference's terms.
Lt(x, y) ==
    LET sq(z) == z.n * z.n * z.r   \* over a common denominator below
        a == [x EXCEPT !.n = x.n * y.d, !.d = 1]
        b == [y EXCEPT !.n = y.n * x.d, !.d = 1]
    IN  IF Sign(a) < Sign(b) THEN TRUE
        ELSE IF Sign(a) > Sign(b) THEN FALSE
        ELSE IF Sign(a) >= 0 THEN sq(a) < sq(b)
        ELSE sq(a) > sq(b)

AbsR(x) == IF x.n < 0 THEN Neg(x) ELSE x

\* x ** -0.5 for a rational x > 0:  sqrt(d/n) = sqrt(n*d) / n.
PowNegHalf(x) == IF x.n = 0 THEN Inf(1) ELSE Real(1, x.n, x.n * x.d)

\* x ** e for the two exponents -1/aux the program uses: aux = 1 and aux = 2.
PowNegInv(x, aux) == IF aux = 1 THEN Div(One, x) ELSE PowNegHalf(x)

\* ------------------------------------------------------ arrays (numpy)

\* A 1-d array is a sequence of reals, a 2-d array a sequence of rows.
RECURSIVE SumSeq(_)
SumSeq(s) == IF s = <<>> THEN Zero ELSE Add(Head(s), SumSeq(Tail(s)))

Dot(u, v) == SumSeq([i \in 1..Len(u) |-> Mul(u[i], v[i])])

NRows(M) == Len(M)
NCols(M) == IF M = <<>> THEN 0 ELSE Len(M[1])
Column(M, j) == [i \in 1..Len(M) |-> M[i][j]]
Transpose(M) == [j \in 1..NCols(M) |-> Column(M, j)]

\* A . B for conforming 2-d arrays.
MatMul(A, B) ==
    [i \in 1..NRows(A) |-> [j \in 1..NCols(B) |-> Dot(A[i], Column(B, j))]]

\* scipy's dgemm(alpha, a, b, trans_a, trans_b) = alpha * op(a) . op(b).
dgemm(a, b, trans_a, trans_b) ==
    MatMul(IF trans_a THEN Transpose(a) ELSE a, IF trans_b THEN Transpose(b) ELSE b)

DivMat(M, c) == [i \in 1..NRows(M) |-> [j \in 1..NCols(M) |-> Div(M[i][j], c)]]

\* M * s, s a 1-d array broadcast along the rows: column j is scaled by s[j].
ScaleCols(M, s) == [i \in 1..NRows(M) |-> [j \in 1..NCols(M) |-> Mul(M[i][j], s[j])]]

\* M - m and M + m, m a 1-d array broadcast along the rows.
SubRow(M, m) == [i \in 1..NRows(M) |-> [j \in 1..NCols(M) |-> Sub(M[i][j], m[j])]]
AddRow(M, m) == [i \in 1..NRows(M) |-> [j \in 1..NCols(M) |-> Add(M[i][j], m[j])]]

\* np.mean(X, axis=0)
MeanAxis0(M) ==
    [j \in 1..NCols(M) |-> Div(SumSeq(Column(M, j)), Int2Real(NRows(M)))]

\* np.zeros(k)
Zeros(k) == [j \in 1..k |-> Zero]

\* s[from:to] of Python, 0 <= from, 0 <= to: the entries from+1..to, clamped.
Slice(s, from, to) ==
    LET hi == IF to < Len(s) THEN to ELSE Len(s)
    IN  IF from >= hi THEN <<>> ELSE [i \in 1..(hi - from) |-> s[from + i]]

\* s[index] for an index array, and M[:, index].
Take(s, index) == [i \in 1..Len(index) |-> s[index[i]]]
TakeCols(M, index) == [i \in 1..NRows(M) |-> Take(M[i], index)]

\* The positions where a boolean mask is true, in increasing order.
RECURSIVE MaskIndex(_, _)
MaskIndex(mask, i) ==
    IF i > Len(mask) THEN <<>>
    ELSE IF mask[i] THEN <<i>> \o MaskIndex(mask, i + 1)
    ELSE MaskIndex(mask, i + 1)

\* s[::-1]
Reverse(s) == [i \in 1..Len(s) |-> s[Len(s) + 1 - i]]

\* s.mean(): nan (with a warning) for an empty array.
MeanOf(s) == Div(SumSeq(s), Int2Real(Len(s)))

RECURSIVE MaxAbs(_)
MaxAbs(s) ==
    IF Len(s) = 1 THEN AbsR(s[1])
    ELSE LET m == MaxAbs(Tail(s))
         IN  IF Lt(m, AbsR(s[1])) THEN AbsR(s[1]) ELSE m

AllFinite(M) == \A i \in 1..NRows(M) : \A j \in 1..NCols(M) : IsFinite(M[i][j])

\* ------------------------------------------------- np.linalg.eig (LAPACK)

\* The integer directions the model tries as eigenvectors, one per line through
\* the origin (the first nonzero entry is positive).
Directions(k) ==
    {v \in [1..k -> (-Reach)..Reach] :
        \E i \in 1..k : v[i] > 0 /\ \A j \in 1..(i - 1) : v[j] = 0}

\* v / |v| for an integer vector v.
Unit(v) ==
    LET vv == Dot([i \in 1..Len(v) |-> Int2Real(v[i])], [i \in 1..Len(v) |-> Int2Real(v[i])])
    IN  [i \in 1..Len(v) |-> Mul(Int2Real(v[i]), PowNegHalf(vv))]

MatVec(M, v) == [i \in 1..NRows(M) |-> Dot(M[i], v)]

\* The eigenpairs (value, unit vector) of S among the directions tried.
EigPairs(S) ==
    LET k == NRows(S)
        pair(v) ==
            LET u  == [i \in 1..k |-> Int2Real(v[i])]
                Su == MatVec(S, u)
                i0 == CHOOSE i \in 1..k : v[i] # 0
                lam == Div(Su[i0], u[i0])
            IN  [ok  |-> \A i \in 1..k : Su[i] = Mul(lam, u[i]),
                 val |-> lam,
                 vec |-> Unit(v)]
    IN  {[val |-> pair(v).val, vec |-> pair(v).vec] : v \in {x \in Directions(k) : pair(x).ok}}

\* The sequences of k mutually orthogonal eigenpairs.
RECURSIVE Frames(_, _)
Frames(pairs, k) ==
    IF k = 0 THEN {<<>>}
    ELSE UNION {{Append(f, p) :
                    p \in {q \in pairs : \A i \in 1..Len(f) : Dot(f[i].vec, q.vec) = Zero}} :
                f \in Frames(pairs, k - 1)}

\* np.linalg.eig(S) for a finite symmetric S: every return value the solver may
\* produce, as (w, v) with v[:, i] the unit eigenvector of w[i].  The order of
\* the eigenvalues is not specified, nor is the basis of an eigenspace of
\* dimension above one; an eigenvector's sign is fixed by Directions.
LinalgEig(S) ==
    {[w |-> [i \in 1..NRows(S) |-> f[i].val],
      v |-> [i \in 1..NRows(S) |-> [j \in 1..NRows(S) |-> f[j].vec[i]]]] :
        f \in Frames(EigPairs(S), NRows(S))}

\* np.linalg.eig raises LinAlgError on an array with infs or nans.
EigRaises(S) == ~AllFinite(S)

\* np.argsort(a): the permutations that sort a ascending (numpy's default sort
\* is not stable, so equal entries come in any order).
ArgSort(a) ==
    {p \in [1..Len(a) -> 1..Len(a)] :
        /\ \A i, j \in 1..Len(a) : i # j => p[i] # p[j]
        /\ \A i \in 1..(Len(a) - 1) : ~Lt(a[p[i + 1]], a[p[i]])}

\* ------------------------------------------- _eigenvalue_decomposition

\* limit = np.max(np.abs(eigenvalues)) * eps, with eps = 10 ** -e: kept as the
\* pair (max, e), since 10 ** 10 does not fit TLC's 32-bit integers.
Limit(eigenvalues, e) == [m |-> MaxAbs(eigenvalues), e |-> e]

\* x > limit, that is x * 10 ** e > m, for a limit >= 0.
RECURSIVE GtLimit(_, _)
GtLimit(x, limit) ==
    IF ~Lt(Zero, x) THEN FALSE
    ELSE IF Lt(limit.m, x) THEN TRUE
    ELSE IF limit.e = 0 THEN FALSE
    ELSE GtLimit(Mul(x, Int2Real(10)), [limit EXCEPT !.e = limit.e - 1])

\* A solver that leaves the eigenvalues in argsort's ascending order.
SortIndexAscending(p) == p

\* Lines 207-210: sort eigenvalues from largest to smallest.
SortIndex(p) == Reverse(p)

\* Line 216: select positive eigenvalues.
PosIndex(eigenvalues) == [i \in 1..Len(eigenvalues) |-> Lt(Zero, eigenvalues[i])]

\* Line 220: check they are within the expected tolerance.
TolIndex(pos_eigenvalues, limit) ==
    [i \in 1..Len(pos_eigenvalues) |-> GtLimit(pos_eigenvalues[i], limit)]

\* The body of _eigenvalue_decomposition after np.linalg.eig returned raw and
\* np.argsort returned p.
EigenFilter(raw, p, e) ==
    LET index        == SortIndex(p)
        eigenvalues  == Take(raw.w, index)
        eigenvectors == TakeCols(raw.v, index)
        limit        == Limit(eigenvalues, e)
        pos_index    == MaskIndex(PosIndex(eigenvalues), 1)
        pos_eigenvalues0  == Take(eigenvalues, pos_index)
        pos_eigenvectors0 == TakeCols(eigenvectors, pos_index)
        index2       == MaskIndex(TolIndex(pos_eigenvalues0, limit), 1)
    IN  [pos_eigenvectors |-> TakeCols(pos_eigenvectors0, index2),
         pos_eigenvalues  |-> Take(pos_eigenvalues0, index2)]

\* _eigenvalue_decomposition(S, eps = 10 ** -e): every (call record) it may
\* produce for a finite S: the arguments, what np.linalg.eig returned and the
\* return value.
_eigenvalue_decomposition(S, e) ==
    UNION {{[S |-> S, e |-> e, w |-> raw.w, v |-> raw.v,
             pos_eigenvectors |-> EigenFilter(raw, p, e).pos_eigenvectors,
             pos_eigenvalues  |-> EigenFilter(raw, p, e).pos_eigenvalues] :
                p \in ArgSort(raw.w)} :
           raw \in LinalgEig(S)}

\* ------------------------------------------------------------ class PCA

\* The attributes _fit creates (they do not exist on a new instance).
FittedAttrs ==
    {"mean_", "noise_variance_", "components_", "explained_variance_",
     "explained_variance_ratio_"}

\* PCA.__init__: the instance after construction.  attrs is the set of fitted
\* attributes the instance has; the value kept for an attribute it has not is
\* never read.
__init__(n_components_arg, whiten_arg, center_arg, bias_arg) ==
    [n_components_ |-> n_components_arg,
     whiten |-> whiten_arg,
     center |-> center_arg,
     bias   |-> bias_arg,
     attrs  |-> {},
     mean_  |-> <<>>,
     noise_variance_ |-> Zero,
     components_ |-> <<>>,
     explained_variance_ |-> <<>>,
     explained_variance_ratio_ |-> <<>>]

MinOf(a, b) == IF a < b THEN a ELSE b

\* Lines 83-86: the divisor N of the covariance.
Divisor(bias_, n_samples) == IF bias_ THEN n_samples ELSE n_samples - 1

\* Lines 88-93: the mean _fit stores.
FitMean(center_, Xa) == IF center_ THEN MeanAxis0(Xa) ELSE Zeros(NCols(Xa))

\* Line 91: X -= self.mean_, in place in the caller's array.
CenterInPlace(center_, Xa, mean) == IF center_ THEN SubRow(Xa, mean) ELSE Xa

\* A fit that sends n_features = n_samples to the primal branch.
IsPrimalOnTies(n_samples, n_features) == n_features <= n_samples

\* Line 95: the branch taken.
IsPrimal(n_samples, n_features) == n_features < n_samples

\* Lines 98 and 113: the covariance matrix S.
Scatter(Xa, N, primal) ==
    IF primal
    THEN DivMat(dgemm(Transpose(Xa), Transpose(Xa), FALSE, TRUE), Int2Real(N))
    ELSE DivMat(dgemm(Transpose(Xa), Transpose(Xa), TRUE, FALSE), Int2Real(N))

\* Lines 105-107: eigenvectors *= eigenvalues ** -0.5 when whitening.
PrimalEigenvectors(eigenvectors, eigenvalues, whiten_) ==
    IF whiten_
    THEN ScaleCols(eigenvectors, [i \in 1..Len(eigenvalues) |-> PowNegHalf(eigenvalues[i])])
    ELSE eigenvectors

\* A fit with the two exponents exchanged.
AuxExchanged(whiten_) == IF whiten_ THEN 2 ELSE 1

\* Lines 120-123.
Aux(whiten_) == IF whiten_ THEN 1 ELSE 2

\* Line 127: w = (N * eigenvalues) ** (-1 / aux).
DualWeights(N, eigenvalues, aux) ==
    [i \in 1..Len(eigenvalues) |-> PowNegInv(Mul(Int2Real(N), eigenvalues[i]), aux)]

\* Lines 128-129: w * dgemm(a=X.T, b=eigenvectors.T, trans_b=True).
DualEigenvectors(Xa, eigenvectors, w) ==
    ScaleCols(dgemm(Transpose(Xa), Transpose(eigenvectors), FALSE, TRUE), w)

\* Lines 131-133.
ResolveNComponents(n_components_, eigenvalues) ==
    IF n_components_ = None THEN Len(eigenvalues) ELSE n_components_

\* Lines 135-140.
NoiseVariance(n_components_, eigenvalues, n_samples, n_features) ==
    IF n_components_ < MinOf(n_samples, n_features)
    THEN MeanOf(Slice(eigenvalues, n_components_, Len(eigenvalues)))
    ELSE Zero

\* A fit that divides by the sum of the retained eigenvalues only.
RatioOverRetained(explained_variance_, eigenvalues) ==
    [i \in 1..Len(explained_variance_) |->
        Div(explained_variance_[i], SumSeq(explained_variance_))]

\* Lines 149-150.
ExplainedVarianceRatio(explained_variance_, eigenvalues) ==
    [i \in 1..Len(explained_variance_) |->
        Div(explained_variance_[i], SumSeq(eigenvalues))]

\* A fit that assigns mean_ only once nothing can fail any more.
AfterCenteringUntouched(me, mean) == me

\* The instance when _fit raises after line 93: only mean_ was assigned.
AfterCentering(me, mean) ==
    [me EXCEPT !.mean_ = mean, !.attrs = me.attrs \cup {"mean_"}]

\* The instance when _fit returns (lines 131-150).
AfterFit(me, mean, eigenvectors, eigenvalues, n_samples, n_features) ==
    LET nc == ResolveNComponents(me.n_components_, eigenvalues)
        ev == Slice(eigenvalues, 0, nc)
    IN  [me EXCEPT
            !.attrs = FittedAttrs,
            !.mean_ = mean,
            !.n_components_ = nc,
            !.noise_variance_ = NoiseVariance(nc, eigenvalues, n_samples, n_features),
            !.components_ = Slice(Transpose(eigenvectors), 0, nc),
            !.explained_variance_ = ev,
            !.explained_variance_ratio_ = ExplainedVarianceRatio(ev, eigenvalues)]

NoLocals ==
    [N |-> 0, branch |-> "none", S |-> <<>>, w |-> <<>>, eigenvalues |-> <<>>]
NoCall ==
    [S |-> <<>>, e |-> 0, w |-> <<>>, v |-> <<>>,
     pos_eigenvectors |-> <<>>, pos_eigenvalues |-> <<>>]

\* Lines 81-129 of PCA._fit on the array A = [ndim, a], for an instance with the
\* given whiten, center and bias: every way these lines may end: the exception
\* raised, the mean, the caller's array afterwards, the locals N, S, w, and the
\* eigenvectors and eigenvalues on line 130 with the solver call that gave them.
FitSteps(whiten_, center_, bias_, A) ==
    IF A.ndim # 2
    THEN \* line 81: n_samples, n_features = X.shape raises ValueError
         {[raised |-> "ValueError", mean |-> <<>>, Xa |-> A.a, locals |-> NoLocals,
           eigenvectors |-> <<>>, call |-> NoCall]}
    ELSE
    LET n_samples  == NRows(A.a)
        n_features == NCols(A.a)
        N      == Divisor(bias_, n_samples)
        mean   == FitMean(center_, A.a)
        Xc     == CenterInPlace(center_, A.a, mean)
        primal == IsPrimal(n_samples, n_features)
        S      == Scatter(Xc, N, primal)
        base   == [N |-> N, branch |-> IF primal THEN "primal" ELSE "dual", S |-> S,
                   w |-> <<>>, eigenvalues |-> <<>>]
    IN  IF EigRaises(S)
        THEN \* line 206: np.linalg.eig raises LinAlgError
             {[raised |-> "LinAlgError", mean |-> mean, Xa |-> Xc, locals |-> base,
               eigenvectors |-> <<>>, call |-> NoCall]}
        ELSE
        {LET eigenvalues == c.pos_eigenvalues
             w == IF primal THEN <<>> ELSE DualWeights(N, eigenvalues, Aux(whiten_))
             eigenvectors ==
                IF primal
                THEN PrimalEigenvectors(c.pos_eigenvectors, eigenvalues, whiten_)
                ELSE DualEigenvectors(Xc, c.pos_eigenvectors, w)
         IN  [raised |-> "none", mean |-> mean, Xa |-> Xc,
              locals |-> [base EXCEPT !.w = w, !.eigenvalues = eigenvalues],
              eigenvectors |-> eigenvectors, call |-> c] :
            c \in _eigenvalue_decomposition(S, EpsExp)}

\* PCA._fit(self, X): every way the call may end: the instance and the
\* caller's array afterwards, the exception raised, the locals and the call of
\* _eigenvalue_decomposition made (lastcall when none was).  steps are the ways
\* lines 81-129 may end for this instance and array.
_fit(me, A, lastcall, steps) ==
    {[self   |-> IF st.raised = "ValueError" THEN me
                 ELSE IF st.raised = "LinAlgError" THEN AfterCentering(me, st.mean)
                 ELSE AfterFit(me, st.mean, st.eigenvectors, st.locals.eigenvalues,
                               NRows(A.a), NCols(A.a)),
      Xa     |-> st.Xa,
      raised |-> st.raised,
      locals |-> st.locals,
      call   |-> IF st.raised = "none" THEN st.call ELSE lastcall] :
        st \in steps}

\* PCA.transform(self, X): Z for a 2-d X with n_features columns.
transform(me, Xa) ==
    dgemm(Transpose(SubRow(Xa, me.mean_)), Transpose(me.components_), TRUE, FALSE)

\* An inverse_transform that does not add the mean back.
inverse_transform_without_mean(me, Za) ==
    dgemm(Transpose(Za), Transpose(me.components_), TRUE, TRUE)

\* PCA.inverse_transform(self, Z).
inverse_transform(me, Za) ==
    AddRow(dgemm(Transpose(Za), Transpose(me.components_), TRUE, TRUE), me.mean_)

\* ------------------------------------------------------------- inputs

IntMatrix(rows) ==
    [i \in 1..Len(rows) |-> [j \in 1..Len(rows[i]) |-> Int2Real(rows[i][j])]]
Array2(rows) == [ndim |-> 2, a |-> IntMatrix(rows)]

\* The data the callers fit.  Each has, centred and not, a scatter matrix
\* whose eigenvectors lie along directions of Directions (InputsInReach).
\*   4 x 2, feature 2 = 2 * feature 1 (rank 1; primal)
Data42 == Array2(<<<<1, 2>>, <<2, 4>>, <<3, 6>>, <<4, 8>>>>)
\*   3 x 2 of rank 2 (primal)
Data32 == Array2(<<<<0, 0>>, <<1, 2>>, <<2, 1>>>>)
\*   3 x 2, all rows equal (no variance once centred; primal)
DataConst == Array2(<<<<1, 1>>, <<1, 1>>, <<1, 1>>>>)
\*   2 x 2 (n_features = n_samples: dual), equal eigenvalues when not centred
Data22 == Array2(<<<<1, 0>>, <<0, 1>>>>)
\*   2 x 3 of rank 2 (dual)
Data23 == Array2(<<<<1, 0, 1>>, <<0, 1, 1>>>>)
\*   3 x 3 of rank 3 (dual), eigenvalues 8, 4, 2 of X.Xt
Data33 == Array2(<<<<0, 0, 2>>, <<0, 2, 1>>, <<2, 0, 1>>>>)
\*   1 x 2: one sample (N = 0 unless bias)
Data12 == Array2(<<<<1, 2>>>>)
\*   a 1-d array of two numbers: X.shape has one entry
Data1d == [ndim |-> 1, a |-> IntMatrix(<<<<1, 2>>>>)]

Inputs == {Data42, Data32, DataConst, Data22, Data23, Data33, Data12, Data1d}

NoArray == [ndim |-> 2, a |-> <<>>]

\* Symmetric matrices and tolerance exponents for direct calls of
\* _eigenvalue_decomposition(S, eps = 10 ** -e): a zero eigenvalue, one below
\* the tolerance 1e-1, a negative one, and three distinct ones.  (Equal
\* eigenvalues reach the solver through fit on Data22.)
SolverInputs ==
    {IntMatrix(<<<<5, 10>>, <<10, 20>>>>),
     IntMatrix(<<<<26, 0>>, <<0, 2>>>>),
     IntMatrix(<<<<1, 2>>, <<2, 1>>>>),
     IntMatrix(<<<<40, 0, 0>>, <<0, 4, 1>>, <<0, 1, 4>>>>)}
SolverExps == {0, 1, EpsExp}

\* FitSteps and _eigenvalue_decomposition on the inputs above, computed once.
FitCache ==
    {[whiten |-> wh, center |-> ce, bias |-> bi, A |-> A,
      steps |-> FitSteps(wh, ce, bi, A)] :
        wh \in BOOLEAN, ce \in BOOLEAN, bi \in BOOLEAN, A \in Inputs}
FitStepsOf(me, A) ==
    (CHOOSE t \in FitCache :
        t.whiten = me.whiten /\ t.center = me.center /\ t.bias = me.bias /\ t.A = A).steps

SolverCache ==
    {[S |-> S, e |-> e, calls |-> _eigenvalue_decomposition(S, e)] :
        S \in SolverInputs, e \in SolverExps}
SolverCallsOf(S, e) == (CHOOSE t \in SolverCache : t.S = S /\ t.e = e).calls

\* -------------------------------------------------------- state machine

VARIABLES
    self,          \* the PCA instance (a record of its attributes)
    n_components,  \* the n_components argument the instance was constructed with
    X,             \* the caller's array given to the latest fit, as it is now
    X_given,       \* the contents of that array when fit was called
    op,            \* the latest call
    raised,        \* the exception the latest call raised, or "none"
    fit_raised,    \* the exception the latest fit raised, "none", or "unfit"
    locals,        \* N, branch, S, w, eigenvalues of the latest _fit
    solver,        \* the latest call of _eigenvalue_decomposition
    Z,             \* the result of the latest transform
    Z_of,          \* the argument it was given: "given" (X_given) or "inplace" (X)
    Xr             \* the result of the latest inverse_transform

vars == <<self, n_components, X, X_given, op, raised, fit_raised, locals, solver,
          Z, Z_of, Xr>>

Init ==
    /\ n_components \in {None} \cup (1..MaxComponents)
    /\ \E wh \in BOOLEAN, ce \in BOOLEAN, bi \in BOOLEAN :
          self = __init__(n_components, wh, ce, bi)
    /\ X = NoArray
    /\ X_given = NoArray
    /\ op = "__init__"
    /\ raised = "none"
    /\ fit_raised = "unfit"
    /\ locals = NoLocals
    /\ solver = NoCall
    /\ Z = <<>>
    /\ Z_of = "none"
    /\ Xr = <<>>

\* pca.fit(A): _fit, then return self.  The caller drops earlier results.
Fit(A) ==
    \E out \in _fit(self, A, solver, FitStepsOf(self, A)) :
        /\ self' = out.self
        /\ X' = [ndim |-> A.ndim, a |-> out.Xa]
        /\ X_given' = A
        /\ op' = "fit"
        /\ raised' = out.raised
        /\ fit_raised' = out.raised
        /\ locals' = out.locals
        /\ solver' = out.call
        /\ Z' = <<>>
        /\ Z_of' = "none"
        /\ Xr' = <<>>
        /\ UNCHANGED n_components

\* The argument of a transform call: a copy of the training data as given to
\* fit, or the array fit was given (centred in place).
TransformArg(src) == IF src = "given" THEN X_given ELSE X

\* pca.transform(A) for a 2-d A.  AttributeError before mean_ and components_
\* exist; ValueError from the subtraction or dgemm when the number of features
\* differs from the fitted one.  (With no component retained dgemm is handed an
\* empty array; that call is not modelled.)
Transform(src) ==
    LET A == TransformArg(src) IN
    /\ A.ndim = 2 /\ A.a # <<>>
    /\ ~({"mean_", "components_"} \subseteq self.attrs) \/ self.components_ # <<>>
    /\ op' = "transform"
    /\ IF ~({"mean_", "components_"} \subseteq self.attrs)
       THEN raised' = "AttributeError" /\ UNCHANGED <<Z, Z_of>>
       ELSE IF NCols(A.a) # Len(self.mean_) \/ NCols(A.a) # NCols(self.components_)
       THEN raised' = "ValueError" /\ UNCHANGED <<Z, Z_of>>
       ELSE /\ raised' = "none"
            /\ Z' = transform(self, A.a)
            /\ Z_of' = src
    /\ Xr' = <<>>
    /\ UNCHANGED <<self, n_components, X, X_given, fit_raised, locals, solver>>

\* pca.inverse_transform(Z) on the result of the latest transform.
InverseTransform ==
    /\ Z # <<>>
    /\ op' = "inverse_transform"
    /\ raised' = "none"
    /\ Xr' = inverse_transform(self, Z)
    /\ UNCHANGED <<self, n_components, X, X_given, fit_raised, locals, solver, Z, Z_of>>

\* A direct call _eigenvalue_decomposition(S, 10 ** -e).  The function neither
\* reads nor writes the instance, and fit does not read the result of a direct
\* call, so the direct calls are placed before the first fit.
Decompose(S, e) ==
    /\ fit_raised = "unfit"
    /\ solver' \in SolverCallsOf(S, e)
    /\ op' = "_eigenvalue_decomposition"
    /\ raised' = "none"
    /\ UNCHANGED <<self, n_components, X, X_given, fit_raised, locals, Z, Z_of, Xr>>

Next ==
    \/ \E A \in Inputs : Fit(A)
    \/ \E src \in {"given", "inplace"} : Transform(src)
    \/ InverseTransform
    \/ \E S \in SolverInputs, e \in SolverExps : Decompose(S, e)

Spec == Init /\ [][Next]_vars

\* ------------------------------------------------------ sanity of the model

\* Every scatter matrix the inputs give has a full set of eigenvectors among
\* the directions tried, so np.linalg.eig is modelled on all of them.
InputsInReach ==
    /\ \A A \in Inputs : \A ce \in BOOLEAN, bi \in BOOLEAN :
          A.ndim = 2 /\ Divisor(bi, NRows(A.a)) # 0 =>
             LinalgEig(Scatter(CenterInPlace(ce, A.a, FitMean(ce, A.a)),
                               Divisor(bi, NRows(A.a)),
                               IsPrimal(NRows(A.a), NCols(A.a)))) # {}
    /\ \A S \in SolverInputs : LinalgEig(S) # {}

\* No value the program computed left the reals (n/d) * sqrt(r) of the model.
Representable ==
    /\ AllFinite(self.components_)
    /\ AllFinite(Z)
    /\ AllFinite(Xr)
    /\ AllFinite(solver.pos_eigenvectors)

\* ------------------------------------------------------------- claims

FitOk == fit_raised = "none"
n_samples == NRows(X_given.a)
n_features == NCols(X_given.a)

\* The sum of a 1-d array, and the mean of the squares of a column.
SumOfSquares(col) == SumSeq([i \in 1..Len(col) |-> Mul(col[i], col[i])])
Le(x, y) == ~Lt(y, x)

\* C1: after fit with n_components unset, when every eigenvalue that survived
\* the solver's filter is retained, noise_variance_ is exactly 0.0; for the
\* 4 x 2 matrix of two perfectly correlated columns (center, no bias)
\* n_components_ = 1, noise_variance_ = 0.0 and explained_variance_ratio_[0] = 1.0.
C1_NoiseZeroWhenAllRetained ==
    /\ (FitOk /\ n_components = None
          /\ Len(self.explained_variance_) = Len(locals.eigenvalues))
        => self.noise_variance_ = Zero
    /\ (FitOk /\ n_components = None /\ X_given = Data42 /\ self.center /\ ~self.bias)
        => /\ self.n_components_ = 1
           /\ self.noise_variance_ = Zero
           /\ self.explained_variance_ratio_ = <<One>>

\* C2: after any fit the instance equals a freshly constructed instance with
\* the same constructor arguments fitted once on the same data (one of the
\* results that fit may give).
C2_RefitEqualsFreshFit ==
    FitOk =>
        LET fresh == __init__(n_components, self.whiten, self.center, self.bias)
        IN  self \in {o.self : o \in _fit(fresh, X_given, NoCall, FitStepsOf(fresh, X_given))}

\* C3: after a successful fit components_ has exactly n_components_ rows and
\* explained_variance_ and explained_variance_ratio_ have exactly n_components_
\* entries.
C3_ShapesMatchNComponents ==
    FitOk =>
        /\ Len(self.components_) = self.n_components_
        /\ Len(self.explained_variance_) = self.n_components_
        /\ Len(self.explained_variance_ratio_) = self.n_components_

TransformedTraining ==
    FitOk /\ op = "transform" /\ raised = "none" /\ Z_of = "given"

\* The variance of column k of Z with the divisor N that fit used.
ColumnVariance(k) == Div(SumOfSquares(Column(Z, k)), Int2Real(locals.N))

\* C4: with whiten = True, transform of the training data has columns of unit
\* variance (divisor N), for every retained component, in both branches.
C4_WhitenedUnitVariance ==
    (TransformedTraining /\ self.whiten) =>
        \A k \in 1..NCols(Z) : ColumnVariance(k) = One

\* What holds of the code: unit variance in the primal branch, variance 1/N in
\* the dual branch.
WhitenedVarianceOfCode ==
    (TransformedTraining /\ self.whiten) =>
        \A k \in 1..NCols(Z) :
            ColumnVariance(k) = IF locals.branch = "primal" THEN One ELSE Rat(1, locals.N)

\* The determinant of a square matrix, by expansion along the first row.
RECURSIVE Det(_)
Det(M) ==
    IF NRows(M) = 1 THEN M[1][1]
    ELSE LET minor(j) ==
                 [i \in 1..(NRows(M) - 1) |->
                     [k \in 1..(NRows(M) - 1) |-> M[i + 1][IF k < j THEN k ELSE k + 1]]]
             term(j) == Mul(Mul(Int2Real(IF j % 2 = 1 THEN 1 ELSE -1), M[1][j]), Det(minor(j)))
         IN  SumSeq([j \in 1..NRows(M) |-> term(j)])

\* The data have rank min(n_samples, n_features): the smaller Gram matrix is regular.
FullRank(Xa) ==
    Det(IF NRows(Xa) <= NCols(Xa) THEN MatMul(Xa, Transpose(Xa))
        ELSE MatMul(Transpose(Xa), Xa)) # Zero

RoundTripCase ==
    /\ FitOk /\ ~self.whiten
    /\ self.n_components_ = MinOf(n_samples, n_features)
    /\ FullRank(X_given.a)
    /\ op = "inverse_transform" /\ Z_of = "given"

\* C5: unwhitened, n_components = min(n_samples, n_features), training data of
\* full rank: inverse_transform(transform(X)) is X, in both branches, centred or not.
C5_RoundTrip == RoundTripCase => Xr = X_given.a

C5_Witness ==
    RoundTripCase /\ locals.branch = "dual" /\ self.center /\ Xr = X_given.a

C5_WitnessPrimal ==
    RoundTripCase /\ locals.branch = "primal" /\ ~self.center /\ Xr = X_given.a

RatioIsQuotient ==
    \A i \in 1..Len(self.explained_variance_ratio_) :
        Mul(self.explained_variance_ratio_[i], SumSeq(locals.eigenvalues))
            = self.explained_variance_[i]

\* C6 as stated: explained_variance_ratio_ is explained_variance_ over the sum
\* of all surviving eigenvalues; its sum is at most 1 when n_components_ does
\* not exceed their number, and is 1 when all of them are retained.
C6_RatioSumsToOne ==
    FitOk =>
        /\ Len(self.explained_variance_ratio_) = Len(self.explained_variance_)
        /\ RatioIsQuotient
        /\ self.n_components_ <= Len(locals.eigenvalues)
              => Le(SumSeq(self.explained_variance_ratio_), One)
        /\ Len(self.explained_variance_) = Len(locals.eigenvalues)
              => SumSeq(self.explained_variance_ratio_) = One

\* C6 as amended: the sum is 1 when all surviving eigenvalues are retained and
\* at least one survived; below 1 when some are discarded; and 0 (the ratio is
\* the empty array) when no eigenvalue survived.
C6_RatioSumAmended ==
    FitOk =>
        /\ Len(self.explained_variance_ratio_) = Len(self.explained_variance_)
        /\ RatioIsQuotient
        /\ self.n_components_ <= Len(locals.eigenvalues)
              => Le(SumSeq(self.explained_variance_ratio_), One)
        /\ (Len(self.explained_variance_) = Len(locals.eigenvalues)
                /\ Len(locals.eigenvalues) >= 1)
              => SumSeq(self.explained_variance_ratio_) = One
        /\ Len(self.explained_variance_) < Len(locals.eigenvalues)
              => Lt(SumSeq(self.explained_variance_ratio_), One)
        /\ Len(locals.eigenvalues) = 0
              => SumSeq(self.explained_variance_ratio_) = Zero

C6_Witness ==
    /\ FitOk
    /\ 1 <= Len(self.explained_variance_)
    /\ Len(self.explained_variance_) < Len(locals.eigenvalues)
    /\ Lt(SumSeq(self.explained_variance_ratio_), One)

\* The eigenvalue x of np.linalg.eig's return value w passes the two filters
\* of the solver called with eps = 10 ** -e.
Survives(x, w, e) == Lt(Zero, x) /\ GtLimit(x, [m |-> MaxAbs(w), e |-> e])

\* C7: the solver returns exactly the eigenpairs of S whose eigenvalue is
\* above zero and above limit = max(|eigenvalue|) * eps, each unit eigenvector
\* with its own eigenvalue, by non-increasing eigenvalue; and after every fit
\* explained_variance_ is non-increasing and strictly positive.
C7_SolverExact ==
    /\ solver.S # <<>> =>
        LET vals == solver.pos_eigenvalues
            vecs == solver.pos_eigenvectors
            p    == Len(vals)
            kept == {j \in 1..Len(solver.w) : Survives(solver.w[j], solver.w, solver.e)}
        IN  /\ \A i \in 1..p :
                  /\ Survives(vals[i], solver.w, solver.e)
                  /\ MatVec(solver.S, Column(vecs, i))
                        = [k \in 1..NRows(solver.S) |-> Mul(vals[i], vecs[k][i])]
                  /\ SumOfSquares(Column(vecs, i)) = One
            /\ \A i \in 1..(p - 1) : Le(vals[i + 1], vals[i])
            /\ Cardinality(kept) = p
            /\ \E f \in [1..p -> kept] :
                  /\ \A i, j \in 1..p : i # j => f[i] # f[j]
                  /\ \A i \in 1..p :
                        /\ solver.w[f[i]] = vals[i]
                        /\ Column(solver.v, f[i]) = Column(vecs, i)
    /\ FitOk =>
          /\ \A i \in 1..Len(self.explained_variance_) :
                Lt(Zero, self.explained_variance_[i])
          /\ \A i \in 1..(Len(self.explained_variance_) - 1) :
                Le(self.explained_variance_[i + 1], self.explained_variance_[i])

\* A call in which the tolerance, not the sign, drops an eigenvalue, and
\* several survive.
C7_Witness ==
    /\ solver.S # <<>>
    /\ Len(solver.pos_eigenvalues) >= 2
    /\ \E j \in 1..Len(solver.w) :
          Lt(Zero, solver.w[j]) /\ ~Survives(solver.w[j], solver.w, solver.e)

C7_WitnessFit ==
    FitOk /\ Len(self.explained_variance_) >= 3

\* The divisor of the claim: n_samples if bias else n_samples - 1.
ClaimedN == IF self.bias THEN n_samples ELSE n_samples - 1

IsInversePower(wi, x, k) ==
    \* wi = x ** (-1/k) for k = 1, 2 and x > 0
    /\ Lt(Zero, wi)
    /\ IF k = 1 THEN Mul(wi, x) = One ELSE Mul(Mul(wi, wi), x) = One

\* C8 as stated: in the dual branch w = (N * eigenvalue) ** (-1/2) when
\* whiten, and (N * eigenvalue) ** (-1) when not.
C8_DualWeightsAsStated ==
    (FitOk /\ locals.branch = "dual") =>
        /\ Len(locals.w) = Len(locals.eigenvalues)
        /\ \A i \in 1..Len(locals.w) :
              IsInversePower(locals.w[i], Mul(Int2Real(ClaimedN), locals.eigenvalues[i]),
                             IF self.whiten THEN 2 ELSE 1)

\* C8 as amended: w = (N * eigenvalue) ** (-1) when whiten, and
\* (N * eigenvalue) ** (-1/2) when not.
C8_DualWeightsAmended ==
    (FitOk /\ locals.branch = "dual") =>
        /\ Len(locals.w) = Len(locals.eigenvalues)
        /\ \A i \in 1..Len(locals.w) :
              IsInversePower(locals.w[i], Mul(Int2Real(ClaimedN), locals.eigenvalues[i]),
                             IF self.whiten THEN 1 ELSE 2)

C8_Witness ==
    /\ FitOk /\ locals.branch = "dual" /\ self.whiten
    /\ Len(locals.w) >= 2
    /\ Mul(Int2Real(ClaimedN), locals.eigenvalues[1]) # One

\* C9: primal exactly when n_features < n_samples, dual otherwise; the
\* scatter matrix is square of side min(n_samples, n_features); every row of
\* components_ has n_features entries.
C9_BranchAndScatterSide ==
    /\ fit_raised \in {"none", "LinAlgError"} =>
          /\ locals.branch = "primal" <=> n_features < n_samples
          /\ locals.branch = "dual" <=> n_features >= n_samples
          /\ NRows(locals.S) = MinOf(n_samples, n_features)
          /\ \A i \in 1..NRows(locals.S) :
                Len(locals.S[i]) = MinOf(n_samples, n_features)
    /\ FitOk =>
          \A i \in 1..Len(self.components_) : Len(self.components_[i]) = n_features

C9_Witness ==
    /\ FitOk /\ n_features = n_samples /\ locals.branch = "dual"
    /\ Len(self.components_) >= 1

C9_WitnessWide ==
    FitOk /\ n_features > n_samples /\ NRows(locals.S) = n_samples
        /\ Len(self.components_) >= 1

\* C10: a fit that raises before any field is written leaves the instance as
\* it was; a fit that raises in the eigendecomposition leaves mean_ rewritten
\* from the new input and the caller's array centred, and every other field as
\* it was; transform and inverse_transform change no field of the instance.
C10_FailureAndPurity ==
    [][/\ (op' = "fit" /\ raised' = "ValueError") => self' = self
       /\ (op' = "fit" /\ raised' = "LinAlgError") =>
             /\ "mean_" \in self'.attrs
             /\ Len(self'.mean_) = NCols(X_given'.a)
             /\ \A j \in 1..NCols(X_given'.a) :
                   IF self.center
                   THEN Mul(self'.mean_[j], Int2Real(NRows(X_given'.a)))
                            = SumSeq(Column(X_given'.a, j))
                   ELSE self'.mean_[j] = Zero
             /\ X'.a = SubRow(X_given'.a, self'.mean_)
             /\ self'.attrs \ {"mean_"} = self.attrs \ {"mean_"}
             /\ [self' EXCEPT !.mean_ = <<>>, !.attrs = {}]
                    = [self EXCEPT !.mean_ = <<>>, !.attrs = {}]
       /\ op' \in {"transform", "inverse_transform"} => self' = self
      ]_vars

\* A fit that raised in the eigendecomposition on a fitted instance: mean_ is
\* that of the new input (two features), the components those of the earlier
\* fit (three features).
C10_Witness ==
    /\ op = "fit" /\ raised = "LinAlgError"
    /\ FittedAttrs \subseteq self.attrs
    /\ Len(self.components_) >= 1
    /\ Len(self.mean_) # Len(self.components_[1])

=============================================================================
